---- MODULE Spec2Model ----
(***************************************************************************)
(* A model of the two project_as_text scripts:                             *)
(*   "project_as_text copy.py"      SingleFile mode (--single) and PerFile *)
(*   "project_as_text_by_modules.py" PerModule mode                        *)
(* Both walk the directory that holds the script, skip the directories     *)
(* named in exclude_dirs, and copy the text of the files whose names end   *)
(* with an allow-listed suffix into project_as_text.txt (SingleFile) or    *)
(* into the directory project_as_text/ (PerFile, PerModule), which lies    *)
(* under the walked root.                                                  *)
(*                                                                         *)
(* A name is a sequence of tokens (<<"a", ".py">> is a.py), a path is a    *)
(* sequence of names relative to the source root, a file's content is a    *)
(* sequence of bytes.  The file system is one map from paths to bytes, the *)
(* destination included.                                                   *)
(***************************************************************************)
EXTENDS Naturals, Sequences, FiniteSets

VARIABLES
    mode,        \* which script and flag runs: "SingleFile", "PerFile", "PerModule"
    destState,   \* what the destination is before the first run (the environment)
    dirs,        \* the directories that exist (paths)
    fs,          \* the regular files that exist: path -> bytes
    unreadable,  \* source files whose open(..., 'r') raises an OSError
    pc,          \* "idle", "walking", "done", "aborted"
    abortAt,     \* the statement whose exception left save_files_as_text
    todo,        \* os.walk: the directories still to be yielded, next first
    cur,         \* os.walk: the directory being processed (root)
    pending,     \* the files of cur not yet handled, next first
    diag,        \* the lines printed, in order
    log,         \* history: the entries written, as (source, destination) pairs
    runs,        \* history: completed runs
    snap         \* history: the file system when the current run started

vars == <<mode, destState, dirs, fs, unreadable, pc, abortAt, todo, cur,
          pending, diag, log, runs, snap>>

----------------------------------------------------------------------------
(* Bounds of the model *)

\* at most this many source files in the tree
MaxFiles == 2
\* at most this many runs in succession on the same tree
MaxRuns == 2

----------------------------------------------------------------------------
(* Names, paths and the fixed parts of the scripts *)

Root == <<>>

\* file.endswith((...)): the allow-list of suffixes
Suffixes == {<<".ts">>, <<".java">>, <<".properties">>, <<".xml">>,
             <<".py">>, <<".md">>, <<".sql">>}

\* exclude_directories = ["target"]
ExcludeDirs == {<<"target">>}

\* the suffix appended to a destination name: file + '.txt'
TxtSuffix == <<".txt">>

\* os.path.join(src_directory, "project_as_text")
DestDir == << <<"project_as_text">> >>

\* os.path.join(src_directory, "project_as_text.txt")
SingleDest == << <<"project_as_text", ".txt">> >>

\* "-" * 20
DashCount == 20

\* os.linesep on the platform modelled (POSIX)
LineSep == <<"LF">>

\* str.endswith for one suffix
EndsWith(name, suf) ==
    /\ Len(name) >= Len(suf)
    /\ SubSeq(name, Len(name) - Len(suf) + 1, Len(name)) = suf

\* file.endswith(('.ts', '.java', '.properties', '.xml', '.py', '.md', '.sql'))
Eligible(name) == \E suf \in Suffixes : EndsWith(name, suf)

\* os.path.join(root, file)
Join(dir, name) == Append(dir, name)

Parent(p) == SubSeq(p, 1, Len(p) - 1)

BaseName(p) == p[Len(p)]

IsPrefix(d, p) == Len(d) <= Len(p) /\ SubSeq(p, 1, Len(d)) = d

RECURSIVE SetToSeq(_)
\* a directory listing: the entries in an order that is arbitrary but a function
\* of the set of entries (os.scandir)
SetToSeq(S) ==
    IF S = {} THEN <<>>
    ELSE LET x == CHOOSE y \in S : TRUE
         IN <<x>> \o SetToSeq(S \ {x})

RECURSIVE Repeat(_, _)
Repeat(s, n) == IF n = 0 THEN <<>> ELSE s \o Repeat(s, n - 1)

RECURSIVE PathText(_)
\* a relative path as text: the names joined by os.sep
PathText(p) ==
    IF p = <<>> THEN <<>>
    ELSE IF Len(p) = 1 THEN p[1]
    ELSE p[1] \o <<"/">> \o PathText(Tail(p))

----------------------------------------------------------------------------
(* Text input and output *)

\* a byte sequence that is not valid UTF-8 holds the byte "FF"
ValidUtf8(bytes) == \A i \in 1..Len(bytes) : bytes[i] # "FF"

RECURSIVE Newlines(_)
\* open(..., 'r') reads with universal newlines: "\r\n" and "\r" become "\n"
Newlines(b) ==
    IF b = <<>> THEN <<>>
    ELSE IF b[1] = "CR"
         THEN <<"LF">> \o Newlines(IF Len(b) >= 2 /\ b[2] = "LF"
                                   THEN SubSeq(b, 3, Len(b))
                                   ELSE Tail(b))
         ELSE <<b[1]>> \o Newlines(Tail(b))

RECURSIVE Encode(_)
\* open(..., 'w' or 'a').write(text): every "\n" is written as os.linesep
Encode(t) ==
    IF t = <<>> THEN <<>>
    ELSE (IF t[1] = "LF" THEN LineSep ELSE <<t[1]>>) \o Encode(Tail(t))

\* with open(src_file_path, 'r', encoding='utf-8') as f: content = f.read()
Read(fsys, p) ==
    IF p \in unreadable THEN [exc |-> "OSError", text |-> <<>>]
    ELSE IF ~ValidUtf8(fsys[p]) THEN [exc |-> "UnicodeDecodeError", text |-> <<>>]
    ELSE [exc |-> "none", text |-> Newlines(fsys[p])]

\* the file system with file p holding bytes
Put(fsys, p, bytes) ==
    [q \in (DOMAIN fsys) \cup {p} |-> IF q = p THEN bytes ELSE fsys[q]]

\* what the destination held before the first run, when it held anything
StaleBytes == <<"o", "LF">>

\* the destination files a previous use left behind
StalePaths == {SingleDest,
               Join(DestDir, <<"a", ".py", ".txt">>),
               Join(DestDir, <<"sub", ".txt">>)}

\* files whose open for writing raises PermissionError
ReadOnly == IF destState = "locked" THEN StalePaths ELSE {}

\* whether open(p, 'w') or open(p, 'a') succeeds
CanOpenForWrite(p) ==
    /\ Parent(p) \in dirs
    /\ p \notin dirs
    /\ p \notin ReadOnly
    /\ (p \in DOMAIN fs \/ destState # "denied")

\* f.write(bytes) on the open file p: the bytes go to its end
Write(fsys, p, bytes) == Put(fsys, p, fsys[p] \o bytes)

\* the file opened with 'w' keeps what it held
OpenWriteKeeping(fsys, p) == IF p \in DOMAIN fsys THEN fsys ELSE Put(fsys, p, <<>>)

\* open(p, 'w'): the file is created or truncated
OpenWrite(fsys, p) == Put(fsys, p, <<>>)

\* the file opened with 'a' is truncated
OpenAppendTruncating(fsys, p) == Put(fsys, p, <<>>)

\* open(p, 'a'): the file is created when it does not exist, and kept otherwise
OpenAppend(fsys, p) == IF p \in DOMAIN fsys THEN fsys ELSE Put(fsys, p, <<>>)

\* only UnicodeDecodeError is handled
CaughtDecodeOnly(exc) == exc = "UnicodeDecodeError"

\* except UnicodeDecodeError: ... except Exception as e: ...
Caught(exc) == exc \in {"UnicodeDecodeError", "OSError"}

\* the line printed by the handler that caught exc while processing src
Diagnostic(exc, src) ==
    IF exc = "UnicodeDecodeError"
    THEN [msg |-> "Skipping binary or incompatible file", path |-> src]
    ELSE [msg |-> "Error processing file", path |-> src]

\* the destination opened (and truncated) before the source is read
CopyTruncFirst(fsys, src, dst) ==
    IF ~CanOpenForWrite(dst) THEN [fs |-> fsys, exc |-> "OSError"]
    ELSE LET r == Read(fsys, src)
         IN IF r.exc # "none" THEN [fs |-> OpenWrite(fsys, dst), exc |-> r.exc]
            ELSE [fs |-> Write(OpenWrite(fsys, dst), dst, Encode(r.text)),
                  exc |-> "none"]

\* the try body of the per-file copy: read src, then open dst with 'w' and
\* write the content
CopyVerbatim(fsys, src, dst) ==
    LET r == Read(fsys, src)
    IN IF r.exc # "none" THEN [fs |-> fsys, exc |-> r.exc]
       ELSE IF ~CanOpenForWrite(dst) THEN [fs |-> fsys, exc |-> "OSError"]
       ELSE [fs |-> Write(OpenWrite(fsys, dst), dst, Encode(r.text)),
             exc |-> "none"]

\* the entry without the line break before the separator
SingleEntryNoBreak(file, text) ==
    file \o TxtSuffix \o <<"LF", "LF">> \o text
         \o Repeat(<<"-">>, DashCount) \o <<"LF">>

\* f"{file}.txt\n\n", content, "\n" + "-" * 20 + "\n"
SingleEntry(file, text) ==
    file \o TxtSuffix \o <<"LF", "LF">> \o text
         \o <<"LF">> \o Repeat(<<"-">>, DashCount) \o <<"LF">>

\* f"{relative_file_path}\n\n", content, "\n---\n"
ModuleEntry(rel, text) ==
    PathText(rel) \o <<"LF", "LF">> \o text \o <<"LF", "-", "-", "-", "LF">>

\* the try body of the single-file branch: read src, then write its entry to
\* the destination stream, which is open since the start of the run
AppendSingle(fsys, src, file) ==
    LET r == Read(fsys, src)
    IN IF r.exc # "none" THEN [fs |-> fsys, exc |-> r.exc]
       ELSE [fs |-> Write(fsys, SingleDest, Encode(SingleEntry(file, r.text))),
             exc |-> "none"]

\* the try body of the subfolder branch: read src, then write its entry to
\* the subfolder file dst, which is open since the folder was entered
AppendModule(fsys, src, dst) ==
    LET r == Read(fsys, src)
    IN IF r.exc # "none" THEN [fs |-> fsys, exc |-> r.exc]
       ELSE [fs |-> Write(fsys, dst, Encode(ModuleEntry(src, r.text))),
             exc |-> "none"]

\* the module file named after the last segment of the folder's path
ModuleFileLast(dir) == Join(DestDir, dir[Len(dir)] \o TxtSuffix)

\* os.path.join(dest_dir, relative_folder_path.split(os.sep)[0] + '.txt')
ModuleFile(dir) == Join(DestDir, dir[1] \o TxtSuffix)

\* os.path.join(dest_dir, file + '.txt')
PerFileDest(file) == Join(DestDir, file \o TxtSuffix)

----------------------------------------------------------------------------
(* os.walk *)

\* the names of the subdirectories of d
DirNames(d) == {BaseName(p) : p \in {q \in dirs : Len(q) = Len(d) + 1 /\ IsPrefix(d, q)}}

\* the names of the regular files of d
FileNames(fsys, d) ==
    {BaseName(p) : p \in {q \in DOMAIN fsys : Len(q) = Len(d) + 1 /\ IsPrefix(d, q)}}

\* no directory is removed
PruneNothing(names) == names

\* dirs[:] = [d for d in dirs if d not in exclude_dirs]
Prune(names) == SelectSeq(names, LAMBDA n : n \notin ExcludeDirs)

\* the directories os.walk descends into from d, after the caller's pruning
Descend(d) ==
    LET kept == Prune(SetToSeq(DirNames(d)))
    IN [i \in 1..Len(kept) |-> Join(d, kept[i])]

----------------------------------------------------------------------------
(* The trees and destinations the runs start from *)

SubDir == << <<"sub">> >>
DeepDir == << <<"sub">>, <<"deep">> >>
LibDir == << <<"lib">> >>
TargetDir == << <<"target">> >>
TargetSubDir == << <<"target">>, <<"sub">> >>
SubTargetDir == << <<"sub">>, <<"target">> >>

\* the directories of the source tree
SourceDirs == {Root, SubDir, DeepDir, LibDir, TargetDir, TargetSubDir, SubTargetDir}

APy == <<"a", ".py">>
BMd == <<"b", ".md">>
CBin == <<"c", ".bin">>

\* the places a source file may be at
Slots == {Join(Root, APy), Join(Root, BMd), Join(Root, CBin),
          Join(SubDir, APy), Join(DeepDir, APy), Join(LibDir, APy),
          Join(TargetSubDir, APy), Join(SubTargetDir, APy)}

\* what a source file may be: text, text with a CR LF line end, bytes that are
\* not UTF-8, and a file that cannot be opened
Kinds == {[bytes |-> <<"x">>, readable |-> TRUE],
          [bytes |-> <<"y", "CR", "LF">>, readable |-> TRUE],
          [bytes |-> <<"x", "FF">>, readable |-> TRUE],
          [bytes |-> <<"x">>, readable |-> FALSE]}

DestStates == {"fresh", "stale", "locked", "denied"}

\* the file system holding the source files F of kinds k, and the destination
\* in state ds
InitialFs(F, k, ds) ==
    LET stale == IF ds \in {"stale", "locked"} THEN StalePaths ELSE {}
    IN [p \in F \cup stale |-> IF p \in F THEN k[p].bytes ELSE StaleBytes]

Init ==
    /\ mode \in {"SingleFile", "PerFile", "PerModule"}
    /\ destState \in DestStates
    /\ \E F \in SUBSET Slots :
         /\ Cardinality(F) <= MaxFiles
         /\ \E k \in [F -> Kinds] :
              /\ fs = InitialFs(F, k, destState)
              /\ unreadable = {p \in F : ~k[p].readable}
    /\ dirs = SourceDirs \cup (IF destState \in {"stale", "locked"} THEN {DestDir} ELSE {})
    /\ pc = "idle"
    /\ abortAt = "none"
    /\ todo = <<>>
    /\ cur = Root
    /\ pending = <<>>
    /\ diag = <<>>
    /\ log = <<>>
    /\ runs = 0
    /\ snap = fs

----------------------------------------------------------------------------
(* The runs *)

\* what a run starts with, whatever the mode
Begin ==
    /\ pc \in {"idle", "done"}
    /\ runs < MaxRuns
    /\ snap' = fs
    /\ diag' = <<>>
    /\ log' = <<>>
    /\ cur' = Root
    /\ pending' = <<>>
    /\ UNCHANGED <<mode, destState, unreadable, runs>>

\* the run ends with the exception raised at statement at
Abort(at) ==
    /\ pc' = "aborted"
    /\ abortAt' = at

\* save_files_as_text(..., single_file=True): open the destination with 'w',
\* then start the walk
StartSingle ==
    /\ mode = "SingleFile"
    /\ Begin
    /\ IF CanOpenForWrite(SingleDest)
       THEN /\ fs' = OpenWrite(fs, SingleDest)
            /\ pc' = "walking"
            /\ todo' = <<Root>>
            /\ UNCHANGED <<dirs, abortAt>>
       ELSE /\ Abort("open_single")
            /\ UNCHANGED <<fs, dirs, todo>>

\* save_files_as_text of both scripts with a destination directory: create
\* it when it does not exist, then start the walk
StartDir ==
    /\ mode \in {"PerFile", "PerModule"}
    /\ Begin
    /\ IF DestDir \in dirs
       THEN /\ pc' = "walking"
            /\ todo' = <<Root>>
            /\ UNCHANGED <<fs, dirs, abortAt>>
       ELSE IF destState # "denied"
       THEN /\ dirs' = dirs \cup {DestDir}
            /\ pc' = "walking"
            /\ todo' = <<Root>>
            /\ UNCHANGED <<fs, abortAt>>
       ELSE /\ Abort("makedirs")
            /\ UNCHANGED <<fs, dirs, todo>>

\* os.walk yields the next directory: its files are listed, and the caller
\* prunes the directories to descend into
Yield ==
    /\ pc = "walking"
    /\ pending = <<>>
    /\ todo # <<>>
    /\ cur' = Head(todo)
    /\ pending' = SetToSeq(FileNames(fs, Head(todo)))
    /\ todo' = Descend(Head(todo)) \o Tail(todo)
    /\ UNCHANGED <<mode, destState, dirs, unreadable, diag, log, runs, snap>>

\* for root, dirs, files in os.walk(src_dir) of the first script
VisitDir ==
    /\ mode \in {"SingleFile", "PerFile"}
    /\ Yield
    /\ UNCHANGED <<fs, pc, abortAt>>

\* the same loop of the second script: below the source root, the subfolder
\* file is opened with 'a' before the files are looked at
VisitDirModules ==
    /\ mode = "PerModule"
    /\ Yield
    /\ IF Head(todo) = Root
       THEN UNCHANGED <<fs, pc, abortAt>>
       ELSE IF CanOpenForWrite(ModuleFile(Head(todo)))
       THEN /\ fs' = OpenAppend(fs, ModuleFile(Head(todo)))
            /\ UNCHANGED <<pc, abortAt>>
       ELSE /\ Abort("open_subfolder")
            /\ UNCHANGED fs

\* what follows the try statement for one eligible file: res is what the try
\* body did, src the file, dst where its text went
Handled(res, src, dst) ==
    /\ fs' = res.fs
    /\ IF res.exc = "none"
       THEN /\ log' = Append(log, [src |-> src, dst |-> dst])
            /\ UNCHANGED <<diag, pc, abortAt>>
       ELSE IF Caught(res.exc)
       THEN /\ diag' = Append(diag, Diagnostic(res.exc, src))
            /\ UNCHANGED <<log, pc, abortAt>>
       ELSE /\ Abort("file")
            /\ UNCHANGED <<diag, log>>

\* for file in files: the next file of the directory
NextFile ==
    /\ pc = "walking"
    /\ pending # <<>>
    /\ pending' = Tail(pending)
    /\ UNCHANGED <<mode, destState, dirs, unreadable, todo, cur, runs, snap>>

\* a file whose name ends with none of the suffixes
Skip == UNCHANGED <<fs, diag, log, pc, abortAt>>

\* the loop body of the single-file branch
ProcessSingle ==
    /\ mode = "SingleFile"
    /\ NextFile
    /\ LET file == Head(pending)
           src == Join(cur, file)
       IN IF Eligible(file)
          THEN Handled(AppendSingle(fs, src, file), src, SingleDest)
          ELSE Skip

\* the loop body of the per-file branch, and of the second script at the
\* source root
ProcessPerFile ==
    /\ mode = "PerFile" \/ (mode = "PerModule" /\ cur = Root)
    /\ NextFile
    /\ LET file == Head(pending)
           src == Join(cur, file)
           dst == PerFileDest(file)
       IN IF Eligible(file)
          THEN Handled(CopyVerbatim(fs, src, dst), src, dst)
          ELSE Skip

\* the loop body of the second script below the source root
ProcessSubfolder ==
    /\ mode = "PerModule" /\ cur # Root
    /\ NextFile
    /\ LET file == Head(pending)
           src == Join(cur, file)
           dst == ModuleFile(cur)
       IN IF Eligible(file)
          THEN Handled(AppendModule(fs, src, dst), src, dst)
          ELSE Skip

\* os.walk is exhausted: save_files_as_text returns
Finish ==
    /\ pc = "walking"
    /\ pending = <<>>
    /\ todo = <<>>
    /\ pc' = "done"
    /\ runs' = runs + 1
    /\ UNCHANGED <<mode, destState, dirs, fs, unreadable, abortAt, todo, cur,
                   pending, diag, log, snap>>

Next ==
    \/ StartSingle
    \/ StartDir
    \/ VisitDir
    \/ VisitDirModules
    \/ ProcessSingle
    \/ ProcessPerFile
    \/ ProcessSubfolder
    \/ Finish

Spec == Init /\ [][Next]_vars

----------------------------------------------------------------------------
(* What the claims speak of *)

\* some directory on the way to p (p's own name aside) is excluded
UnderExcluded(p) == \E i \in 1..(Len(p) - 1) : p[i] \in ExcludeDirs

\* the directory d is excluded or lies below an excluded one
HasExcluded(d) == \E i \in 1..Len(d) : d[i] \in ExcludeDirs

\* the files the run is to copy: an allow-listed name, no excluded ancestor
SourceFiles(fsys) ==
    {p \in DOMAIN fsys :
        \E suf \in Suffixes : EndsWith(BaseName(p), suf) /\ ~UnderExcluded(p)}

Readable(fsys, p) == Read(fsys, p).exc = "none"

TextOf(fsys, p) == Read(fsys, p).text

Logged(p) == {i \in 1..Len(log) : log[i].src = p}

Diagnosed(p) == {i \in 1..Len(diag) : diag[i].path = p}

\* the destination can be created and written
DestWritable == destState \in {"fresh", "stale"}

\* what file q of the destination held before the first run
Prior(q) == IF destState \in {"stale", "locked"} /\ q \in StalePaths
            THEN StaleBytes ELSE <<>>

\* the files of directory d, as paths, in listing order
FilesOf(fsys, d) ==
    LET names == SetToSeq(FileNames(fsys, d))
    IN [i \in 1..Len(names) |-> Join(d, names[i])]

\* the subdirectories of d that are not excluded, as paths, in listing order
KeptSubdirs(d) ==
    LET names == SelectSeq(SetToSeq(DirNames(d)), LAMBDA n : n \notin ExcludeDirs)
    IN [i \in 1..Len(names) |-> Join(d, names[i])]

RECURSIVE PreOrder(_, _)
\* the files at and below the directories ds, top-down: the files of a
\* directory, then those of its subdirectories, excluded ones left out
PreOrder(fsys, ds) ==
    IF ds = <<>> THEN <<>>
    ELSE FilesOf(fsys, Head(ds)) \o PreOrder(fsys, KeptSubdirs(Head(ds)) \o Tail(ds))

\* the files among paths that a run copies
Copied(fsys, paths) ==
    SelectSeq(paths, LAMBDA p : p \in SourceFiles(fsys) /\ Readable(fsys, p))

Dashes == <<"-", "-", "-", "-", "-", "-", "-", "-", "-", "-",
            "-", "-", "-", "-", "-", "-", "-", "-", "-", "-">>

RECURSIVE SingleEntries(_, _)
\* the single-file entries of the files paths: '<base name>.txt', a blank line,
\* the content, a line break, twenty dashes, a line break
SingleEntries(fsys, paths) ==
    IF paths = <<>> THEN <<>>
    ELSE BaseName(Head(paths)) \o <<".txt", "LF", "LF">> \o TextOf(fsys, Head(paths))
           \o <<"LF">> \o Dashes \o <<"LF">>
           \o SingleEntries(fsys, Tail(paths))

RECURSIVE ModuleEntries(_, _)
\* the per-module entries of the files paths: the path relative to the source
\* root, a blank line, the content, a line break, the line '---'
ModuleEntries(fsys, paths) ==
    IF paths = <<>> THEN <<>>
    ELSE PathText(Head(paths)) \o <<"LF", "LF">> \o TextOf(fsys, Head(paths))
           \o <<"LF", "-", "-", "-", "LF">>
           \o ModuleEntries(fsys, Tail(paths))

\* the top-level directories a run enters
Modules == {d \in dirs : Len(d) = 1 /\ d[1] \notin ExcludeDirs}

\* the destination file of the top-level directory d: '<d>.txt'
ModuleDest(d) == Join(DestDir, d[1] \o <<".txt">>)

\* the destination file of a file named name: '<name>.txt'
FileDest(name) == Join(DestDir, name \o <<".txt">>)

\* what one run adds to the destination file of module d
ModuleText(fsys, d) == ModuleEntries(fsys, Copied(fsys, PreOrder(fsys, <<d>>)))

\* the eligible readable files directly under the source root
RootFiles(fsys) == {p \in SourceFiles(fsys) : Len(p) = 1 /\ Readable(fsys, p)}

\* the next file of the walk is eligible, and reading or decoding it fails
ReadFails ==
    /\ pc = "walking"
    /\ pending # <<>>
    /\ \E suf \in Suffixes : EndsWith(Head(pending), suf)
    /\ ~Readable(fs, Join(cur, Head(pending)))

----------------------------------------------------------------------------
(* The claims *)

\* C1: in PerFile and SingleFile mode every eligible file outside the
\* excluded directories appears exactly once in the output: one entry in the
\* single file, respectively one destination file holding its content, also
\* when two eligible files in different directories share a base name.
\* (Stated for readable files and a writable destination.)
C1_ExactlyOnce ==
    (pc = "done" /\ DestWritable /\ mode \in {"SingleFile", "PerFile"}) =>
        \A p \in SourceFiles(snap) :
            Readable(snap, p) =>
                /\ Cardinality(Logged(p)) = 1
                /\ mode = "PerFile" =>
                     /\ FileDest(BaseName(p)) \in DOMAIN fs
                     /\ fs[FileDest(BaseName(p))] = TextOf(snap, p)

\* C2: in all three modes the walk never enters a directory with an excluded
\* name, at any depth, nor anything below it, and nothing beneath such a
\* directory is read, reported or written to any output.
C2_ExcludedNeverVisited ==
    /\ ~HasExcluded(cur)
    /\ \A i \in 1..Len(todo) : ~HasExcluded(todo[i])
    /\ \A i \in 1..Len(log) : ~UnderExcluded(log[i].src)
    /\ \A i \in 1..Len(diag) : ~UnderExcluded(diag[i].path)
    /\ \A q \in DOMAIN fs :
         (IsPrefix(DestDir, q) /\ Len(q) = 2) =>
             \A x \in ExcludeDirs : q[2] # x \o <<".txt">>

\* C2's case: a run that completed on a tree with a readable eligible file in
\* a directory of a non-excluded name below an excluded one
C2_Witness ==
    /\ pc = "done"
    /\ Join(TargetSubDir, APy) \in DOMAIN fs
    /\ Readable(fs, Join(TargetSubDir, APy))

\* C3: when reading or decoding an eligible file fails, the file is skipped,
\* one diagnostic naming it is printed, and the walk goes on with the next
\* file; a completed run has dealt with every eligible file outside the
\* excluded directories, and a file whose read failed has its diagnostic and
\* no entry.
C3_FaultIsolation ==
    /\ [][ReadFails =>
            /\ pc' = "walking"
            /\ pending' = Tail(pending)
            /\ todo' = todo
            /\ cur' = cur
            /\ log' = log
            /\ Len(diag') = Len(diag) + 1
            /\ SubSeq(diag', 1, Len(diag)) = diag
            /\ diag'[Len(diag')].path = Join(cur, Head(pending))]_vars
    /\ [](pc = "done" =>
            \A p \in SourceFiles(snap) :
                /\ Logged(p) # {} \/ Diagnosed(p) # {}
                /\ ~Readable(snap, p) =>
                     Cardinality(Diagnosed(p)) = 1 /\ Logged(p) = {})

\* C3's case: a completed run in which the read of a file at the source root
\* failed and a file of a subdirectory was copied after it
C3_Witness ==
    /\ pc = "done"
    /\ Diagnosed(Join(Root, APy)) # {}
    /\ Logged(Join(SubDir, APy)) # {}

\* C4: the only failures that end a run are the creation of the destination
\* directory and the opening of the single-file destination.
C4_OnlyFatal == pc = "aborted" => abortAt \in {"makedirs", "open_single"}

\* C5: in PerFile mode, after the run, the destination file '<base name>.txt'
\* of every eligible decoded source file holds exactly that file's content.
\* (Stated on the decoded text, which the byte-for-byte reading implies, and
\* for a writable destination.)
C5_RoundTrip ==
    (pc = "done" /\ DestWritable /\ mode = "PerFile") =>
        \A p \in SourceFiles(snap) :
            Readable(snap, p) =>
                /\ FileDest(BaseName(p)) \in DOMAIN fs
                /\ fs[FileDest(BaseName(p))] = TextOf(snap, p)

C7_AppendsPerRun ==
    (pc = "done" /\ mode = "PerModule") =>
        /\ \A d \in Modules :
             /\ ModuleDest(d) \in DOMAIN fs
             /\ fs[ModuleDest(d)] =
                    Prior(ModuleDest(d)) \o Repeat(ModuleText(fs, d), runs)
        /\ \A p \in RootFiles(fs) :
             /\ FileDest(BaseName(p)) \in DOMAIN fs
             /\ fs[FileDest(BaseName(p))] = TextOf(fs, p)

\* C7's case: a second PerModule run completed on a tree with a file at the
\* source root and a file in a subdirectory, both copied
C7_Witness ==
    /\ pc = "done"
    /\ runs = 2
    /\ mode = "PerModule"
    /\ Logged(Join(Root, APy)) # {}
    /\ Logged(Join(SubDir, APy)) # {}
    /\ fs[ModuleDest(SubDir)] # <<>>

\* C8: after one PerModule run on an empty destination, the destination holds
\* '<base name>.txt' with the content for every eligible readable file at the
\* source root, and '<D>.txt' for every top-level directory D that is not
\* excluded, holding one entry for each eligible readable file below D, at
\* any depth, in the order of the walk, and nothing else; each file was
\* written once, into the file of the first segment of its path.
C8_Routing ==
    (pc = "done" /\ mode = "PerModule" /\ runs = 1 /\ destState = "fresh") =>
        /\ {q \in DOMAIN fs : IsPrefix(DestDir, q)} =
               {FileDest(BaseName(p)) : p \in RootFiles(fs)}
                   \cup {ModuleDest(d) : d \in Modules}
        /\ \A p \in RootFiles(fs) : fs[FileDest(BaseName(p))] = TextOf(fs, p)
        /\ \A d \in Modules : fs[ModuleDest(d)] = ModuleText(fs, d)
        /\ \A p \in SourceFiles(fs) :
             Readable(fs, p) =>
                 /\ Cardinality(Logged(p)) = 1
                 /\ \A i \in Logged(p) :
                      log[i].dst = IF Len(p) = 1 THEN FileDest(BaseName(p))
                                   ELSE ModuleDest(<<p[1]>>)

\* C8's case: one PerModule run on an empty destination copied a file two
\* levels below the source root
C8_Witness ==
    /\ pc = "done"
    /\ mode = "PerModule"
    /\ runs = 1
    /\ destState = "fresh"
    /\ Logged(Join(DeepDir, APy)) # {}
    /\ Logged(Join(SubDir, APy)) # {}

C10_FailedReadWritesNothing ==
    [][ReadFails => (fs' = fs /\ dirs' = dirs)]_vars

\* C10's case: a PerFile run skipped a file at the source root whose
\* destination file already existed, and that file holds what it held
C10_Witness ==
    /\ mode = "PerFile"
    /\ destState = "stale"
    /\ Diagnosed(Join(Root, APy)) # {}
    /\ ~Readable(fs, Join(Root, APy))
    /\ fs[FileDest(APy)] = StaleBytes

====
